---- MODULE Spec2Model ----
(***************************************************************************)
(* blueos-recorder: the ingestion loop of src/service.rs (Service::run),   *)
(* the Mcap wrapper around the container writer, and the two schema        *)
(* sources (create_schema, load_cdr_schema).                               *)
(*                                                                         *)
(* Strings with structure are modelled by their parts:                     *)
(*   - a topic "a/b/c" is the sequence of its segments <<"a","b","c">>;    *)
(*   - a dotted name "pkg.Msg" is the sequence <<"pkg","Msg">>;            *)
(*   - an encoding "type;token" is <<"type", token>>, the result of        *)
(*     split(";"), the token being a dotted name;                          *)
(*   - a payload is <<"bytes">> (not UTF-8), <<"text">> (UTF-8 that is not *)
(*     JSON5) or <<"json", value>> (UTF-8 text that parses to value);      *)
(*   - a serde_json Value is a tagged tuple: <<"null">>, <<"bool">>,       *)
(*     <<"num", rep, limbs>>, <<"str">>, <<"arr", seq>>, <<"obj", entries>>*)
(*     where entries is the sequence of <<key, value>> pairs of the map in *)
(*     its iteration order (keys are distinct).                            *)
(* A number keeps serde_json's representation (PosInt(u64), NegInt(i64),   *)
(* Float) and, for the integers, its 64 bits as four 16-bit limbs, most    *)
(* significant first.                                                      *)
(*                                                                         *)
(* The mcap Writer is modelled at its interface: every call either         *)
(* succeeds or fails, chosen by the environment (at most one call of an    *)
(* iteration can fail, since every failure ends the iteration).  A panic   *)
(* unwinds (the default profile) and so drops the Service.                 *)
(***************************************************************************)
EXTENDS Integers, Sequences, FiniteSets, TLC

VARIABLES
    mcap_writer,   \* Mcap.writer: 0 for None, else the index of the open container
    mcap_channel,  \* Mcap.channel: topic -> [channel_id, sequence]
    containers,    \* every file Mcap::new created, in creation order
    clock,         \* SystemTime::now(), in seconds
    last_flush,    \* the local last_flush of Service::run
    status,        \* "running", "exited" (source closed) or "panicked"
    delivered,     \* number of samples received so far
    last,          \* observation of the latest iteration: input features and calls made
    manager,       \* cli.rs MANAGER: <<>> for an empty cell, else <<the stored zkey list>>
    arg,           \* argument of the latest call of a function exercised on its own
    result         \* what that call returned

fn_vars == <<manager, arg, result>>
svc_vars == <<mcap_writer, mcap_channel, containers, clock, last_flush, status, delivered, last>>
vars == <<mcap_writer, mcap_channel, containers, clock, last_flush, status, delivered, last,
          manager, arg, result>>

(***************************** bounds **************************************)
\* samples delivered in one run
MaxMsgs == 3
\* number of times the clock may jump past the flush interval
MaxJumps == 1

(************************* program constants *******************************)
\* MAV_MODE_FLAG_SAFETY_ARMED, 0b10000000
SafetyArmed == 128
\* Duration::from_secs(30)
FlushSecs == 30
\* i64::MAX has a top limb below 2^15
SignLimb == 32768

(***************************** values **************************************)
PosInt(n) == <<"num", "PosInt", <<0, 0, 0, n>>>>
NegInt(n) == <<"num", "NegInt", <<0, 0, 0, n>>>>
BigPosInt == <<"num", "PosInt", <<SignLimb, 0, 0, 0>>>>
Float     == <<"num", "Float", <<>>>>
Str       == <<"str">>
Null      == <<"null">>
Bool      == <<"bool">>
Arr(s)    == <<"arr", s>>
Obj(m)    == <<"obj", m>>

\* serde_json::Number::is_i64: PosInt(v) iff v <= i64::MAX, NegInt always, Float never
is_i64(n) ==
    CASE n[2] = "PosInt" -> n[3][1] < SignLimb
      [] n[2] = "NegInt" -> TRUE
      [] OTHER -> FALSE

\* serde_json::Value::as_u64: Some(v) only for a PosInt; <<>> stands for None
as_u64(v) ==
    IF v[1] = "num" /\ v[2] = "PosInt" THEN <<v[3]>> ELSE <<>>

\* base_mode_value & 0b10000000 != 0, on the low limb
armed_bit(limbs) == (limbs[4] \div SafetyArmed) % 2 = 1

\* the keys used in payloads, in ascending String order
Keys == <<"a", "b", "bits">>
KeyRank(k) == CHOOSE i \in DOMAIN Keys : Keys[i] = k

\* serde_json::Value::get("bits"): Some only on an object holding the key
value_get(v, key) ==
    IF v[1] = "obj" /\ \E i \in DOMAIN v[2] : v[2][i][1] = key
    THEN <<v[2][CHOOSE i \in DOMAIN v[2] : v[2][i][1] = key][2]>>
    ELSE <<>>

\* a variant that keeps the entries in the order the map yields them
BTreeMap_collect_insertion_order(entries) == entries

\* .collect::<BTreeMap<_, _>>(): the entries in ascending key order
BTreeMap_collect(entries) ==
    SortSeq(entries, LAMBDA x, y : KeyRank(x[1]) < KeyRank(y[1]))

is_object(v) == v[1] = "obj"

RECURSIVE create_schema(_)
create_schema(value) ==
    CASE value[1] = "null" -> [type |-> "null"]
      [] value[1] = "bool" -> [type |-> "boolean"]
      [] value[1] = "num" /\ is_i64(value) -> [type |-> "integer"]
      [] value[1] = "num" -> [type |-> "number"]
      [] value[1] = "str" -> [type |-> "string"]
      [] value[1] = "arr" ->
            [type |-> "array",
             items |-> IF Len(value[2]) > 0 THEN create_schema(Head(value[2]))
                       ELSE <<>>]
      [] value[1] = "obj" ->
            [type |-> "object",
             properties |->
                 BTreeMap_collect([i \in DOMAIN value[2] |->
                     <<value[2][i][1], create_schema(value[2][i][2])>>])]

\* load_cdr_schema: split(".") always yields a first part; the second may be
\* missing; further parts are never looked at.  fs is the set of <<package, name>>
\* paths that hold a readable .msg file at the time of the call.
load_cdr_schema(schema, fs) ==
    IF Len(schema) < 2 THEN [ok |-> FALSE, text |-> <<>>]
    ELSE LET schema_path == <<schema[1], schema[2]>>
         IN  IF schema_path \in fs
             THEN [ok |-> TRUE, text |-> <<"msg", schema_path>>]
             ELSE [ok |-> FALSE, text |-> <<>>]

(***************************** topics **************************************)
Digits == {"1", "255"}

\* regex mavlink/\d+/1/HEARTBEAT/base_mode, unanchored: some five consecutive
\* segments match (the first may have any prefix, the last any suffix; the
\* segments used here have neither)
base_mode_regex_is_match(topic) ==
    \E i \in 1..(Len(topic) - 4) :
        /\ topic[i] = "mavlink"
        /\ topic[i + 1] \in Digits
        /\ topic[i + 2] = "1"
        /\ topic[i + 3] = "HEARTBEAT"
        /\ topic[i + 4] = "base_mode"

ControlTopic == <<"mavlink", "1", "1", "HEARTBEAT", "base_mode">>
TopicT1 == <<"t1">>
TopicT2 == <<"t2">>
\* a topic the pattern misses only by its system id
NearMissTopic == <<"mavlink", "x", "1", "HEARTBEAT", "base_mode">>
Topics == {ControlTopic, TopicT1, TopicT2, NearMissTopic}

(**************************** messages *************************************)
Sample(topic, encoding, payload) ==
    [topic |-> topic, encoding |-> encoding, payload |-> payload]

Json == <<"application/json">>
Raw  == <<"zenoh/bytes">>
Cdr(token) == <<"application/cdr", token>>

Bits(v) == <<"json", Obj(<< <<"bits", v>> >>)>>
AB      == <<"json", Obj(<< <<"a", PosInt(1)>>, <<"b", Str>> >>)>>

\* the samples the bus delivers
Samples ==
    { Sample(ControlTopic, Json, Bits(PosInt(SafetyArmed))),
      Sample(ControlTopic, Json, Bits(PosInt(0))),
      Sample(ControlTopic, Json, Bits(PosInt(2 * SafetyArmed))),
      Sample(ControlTopic, Json, Bits(NegInt(1))),
      Sample(ControlTopic, Json, AB),
      Sample(ControlTopic, Json, <<"bytes">>),
      Sample(ControlTopic, Json, <<"text">>),
      Sample(ControlTopic, Raw, Bits(PosInt(SafetyArmed + 1))),
      Sample(ControlTopic, Raw, Bits(PosInt(1))),
      Sample(TopicT1, Json, AB),
      Sample(TopicT1, Json, <<"json", Arr(<<PosInt(1)>>)>>),
      Sample(TopicT1, Json, <<"bytes">>),
      Sample(TopicT1, Json, <<"text">>),
      Sample(TopicT1, Raw, Bits(PosInt(SafetyArmed))),
      Sample(NearMissTopic, Raw, Bits(PosInt(0))),
      Sample(TopicT2, Cdr(<<"pkgX", "MsgY">>), <<"bytes">>),
      Sample(TopicT2, Cdr(<<"pkgX">>), <<"bytes">>),
      Sample(TopicT2, <<"application/cdr">>, <<"bytes">>) }

\* the schema store: the .msg files that may exist
SchemaPaths == { <<"pkgX", "MsgY">> }

\* the calls of one iteration that can fail
Calls == {"open", "finish", "add_schema", "add_channel", "write", "flush"}

(************************** container writer *******************************)
\* the state of one created file: what was written to it and how often the
\* writer was finished.  reg_calls and registered count, per topic, the
\* add_schema calls made and the registrations completed for this container.
NewContainer(path) ==
    [path |-> path, schemas |-> <<>>, channels |-> <<>>, messages |-> <<>>,
     finish_calls |-> 0, overwritten |-> FALSE,
     reg_calls |-> [t \in Topics |-> 0], registered |-> [t \in Topics |-> 0]]

\* Channel::new with the sequence starting at 1
Channel_new_from_one(channel_id) == [channel_id |-> channel_id, sequence |-> 1]

\* Channel::new
Channel_new(channel_id) == [channel_id |-> channel_id, sequence |-> 0]

\* HashMap::new()
EmptyCatalog == [t \in {} |-> Channel_new(0)]

\* HashMap::insert
Insert(map, key, value) ==
    [k \in DOMAIN map \cup {key} |-> IF k = key THEN value ELSE map[k]]

\* generate_filename: recorder_%Y%m%d_%H%M%S.mcap, one name per second
generate_filename(now) == <<"recorder", now>>

\* Writer::add_schema: an identical schema keeps its id, a new one gets the
\* next id (from 1) and is written
add_schema(cont, name, encoding, data, ok) ==
    LET content == [name |-> name, encoding |-> encoding, data |-> data]
        same == {i \in 1..Len(cont.schemas) : cont.schemas[i] = content}
    IN  IF ~ok THEN [ok |-> FALSE, id |-> 0, cont |-> cont]
        ELSE IF same # {} THEN [ok |-> TRUE, id |-> CHOOSE i \in same : TRUE, cont |-> cont]
        ELSE [ok |-> TRUE, id |-> Len(cont.schemas) + 1,
              cont |-> [cont EXCEPT !.schemas = Append(@, content)]]

\* Writer::add_channel: an identical channel keeps its id, a new one gets the
\* next id (from 0) and is written
add_channel(cont, schema_id, topic, msg_encoding, ok) ==
    LET content == [schema_id |-> schema_id, topic |-> topic,
                    message_encoding |-> msg_encoding]
        same == {i \in 1..Len(cont.channels) : cont.channels[i] = content}
    IN  IF ~ok THEN [ok |-> FALSE, id |-> 0, cont |-> cont]
        ELSE IF same # {} THEN [ok |-> TRUE, id |-> (CHOOSE i \in same : TRUE) - 1, cont |-> cont]
        ELSE [ok |-> TRUE, id |-> Len(cont.channels),
              cont |-> [cont EXCEPT !.channels = Append(@, content)]]

\* Writer::write_to_known_channel: appends one message record
write_to_known_channel(cont, channel_id, sequence, ok) ==
    IF ~ok THEN [ok |-> FALSE, cont |-> cont]
    ELSE [ok |-> TRUE,
          cont |-> [cont EXCEPT !.messages =
                        Append(@, [channel_id |-> channel_id, sequence |-> sequence])]]

(******************************* Mcap **************************************)
\* The loop's working state w: self.mcap, the created files, whether a panic
\* is unwinding, whether the catalog held the topic, the writer calls made so
\* far in this iteration (ctl_calls: those of the recording controller), and
\* how the iteration ended ("" while it is still going).

\* Mcap::new handing the old catalog to the new Mcap
Mcap_new_keeps_catalog(w, path, fail) ==
    IF fail = "open"
    THEN [w EXCEPT !.calls = Append(@, "open"), !.panicked = TRUE, !.outcome = "panic_open"]
    ELSE [w EXCEPT
            !.calls = Append(@, "open"),
            !.containers =
                Append([i \in 1..Len(@) |->
                           IF @[i].path = path THEN [@[i] EXCEPT !.overwritten = TRUE]
                           ELSE @[i]],
                       NewContainer(path)),
            !.fresh = [writer |-> Len(w.containers) + 1, channel |-> w.mcap.channel]]

\* Mcap::new: File::create (truncating a file of the same path) and
\* Writer::new; expect() panics when either fails.  The new Mcap is returned
\* in w.fresh, not yet assigned.
Mcap_new(w, path, fail) ==
    IF fail = "open"
    THEN [w EXCEPT !.calls = Append(@, "open"), !.panicked = TRUE, !.outcome = "panic_open"]
    ELSE [w EXCEPT
            !.calls = Append(@, "open"),
            !.containers =
                Append([i \in 1..Len(@) |->
                           IF @[i].path = path THEN [@[i] EXCEPT !.overwritten = TRUE]
                           ELSE @[i]],
                       NewContainer(path)),
            !.fresh = [writer |-> Len(w.containers) + 1, channel |-> EmptyCatalog]]

\* Mcap::finish with as_mut() in place of take(): the writer stays in place
Mcap_finish_keeps_writer(w, fail) ==
    IF w.mcap.writer = 0 THEN w
    ELSE [w EXCEPT
            !.containers[w.mcap.writer].finish_calls = @ + 1,
            !.calls = Append(@, "finish"),
            !.panicked = @ \/ fail = "finish",
            !.outcome = IF fail = "finish" /\ @ = "" THEN "panic_finish" ELSE @]

\* Mcap::finish: take() the writer and finish it; expect() panics on failure
Mcap_finish(w, fail) ==
    IF w.mcap.writer = 0 THEN w
    ELSE [w EXCEPT
            !.mcap.writer = 0,
            !.containers[w.mcap.writer].finish_calls = @ + 1,
            !.calls = Append(@, "finish"),
            !.panicked = @ \/ fail = "finish",
            !.outcome = IF fail = "finish" /\ @ = "" THEN "panic_finish" ELSE @]

\* an Mcap without a Drop implementation
Mcap_drop_nothing(w, fail) == w

\* Drop for Mcap
Mcap_drop(w, fail) == Mcap_finish(w, fail)

\* Mcap::flush
Mcap_flush(w, fail) ==
    IF w.mcap.writer = 0 THEN w
    ELSE [w EXCEPT
            !.calls = Append(@, "flush"),
            !.panicked = fail = "flush",
            !.outcome = IF fail = "flush" THEN "panic_flush" ELSE "appended"]

\* self.mcap = Mcap::new(path): the new value is built first, then the old
\* one is dropped and replaced
assign_mcap(w, path, fail) ==
    LET made == Mcap_new(w, path, fail)
    IN  IF made.panicked THEN made
        ELSE [Mcap_drop(made, fail) EXCEPT !.mcap = made.fresh]

(************************ recording controller *****************************)
\* what the control-message chain of lines 163-168 extracts from a payload:
\* "set" or "clear" when every step succeeds, "none" otherwise
control_bit(payload) ==
    IF payload[1] = "bytes" THEN "none"
    ELSE IF payload[1] # "json" THEN "none"
    ELSE LET base_mode == value_get(payload[2], "bits")
         IN  IF base_mode = <<>> THEN "none"
             ELSE LET base_mode_value == as_u64(base_mode[1])
                  IN  IF base_mode_value = <<>> THEN "none"
                      ELSE IF armed_bit(base_mode_value[1]) THEN "set"
                      ELSE "clear"

\* what the sample asks of the controller
control_of(sample) ==
    IF base_mode_regex_is_match(sample.topic) THEN control_bit(sample.payload)
    ELSE "none"

\* the controller without the topic test of line 162
recording_controller_any_topic(w, sample, now, fail) ==
    LET bit == control_bit(sample.payload)
    IN  IF bit = "set"
        THEN IF w.mcap.writer = 0
             THEN assign_mcap(w, generate_filename(now), fail)
             ELSE w
        ELSE IF bit = "clear" THEN Mcap_finish(w, fail)
        ELSE w

\* the controller without the writer.is_none() test of line 169
recording_controller_always_opens(w, sample, now, fail) ==
    IF ~base_mode_regex_is_match(sample.topic) THEN w
    ELSE LET bit == control_bit(sample.payload)
         IN  IF bit = "set" THEN assign_mcap(w, generate_filename(now), fail)
             ELSE IF bit = "clear" THEN Mcap_finish(w, fail)
             ELSE w

\* the controller reading a payload without usable bits as bits = 0
recording_controller_defaults_clear(w, sample, now, fail) ==
    IF ~base_mode_regex_is_match(sample.topic) THEN w
    ELSE LET bit == control_bit(sample.payload)
         IN  IF bit = "set"
             THEN IF w.mcap.writer = 0
                  THEN assign_mcap(w, generate_filename(now), fail)
                  ELSE w
             ELSE Mcap_finish(w, fail)

recording_controller(w, sample, now, fail) ==
    IF ~base_mode_regex_is_match(sample.topic) THEN w
    ELSE LET bit == control_bit(sample.payload)
         IN  IF bit = "set"
             THEN IF w.mcap.writer = 0
                  THEN assign_mcap(w, generate_filename(now), fail)
                  ELSE w
             ELSE IF bit = "clear" THEN Mcap_finish(w, fail)
             ELSE w

(*************************** channel catalog *******************************)
Dropped(why) == [why |-> why, encoding |-> "", schema |-> <<>>, msg_encoding |-> ""]

\* the match on (encoding_string_0, encoding_string_1)
resolve_schema(sample, fs) ==
    LET encoding_string_0 == sample.encoding[1]
        payload == sample.payload
    IN  IF encoding_string_0 = "application/cdr" /\ Len(sample.encoding) >= 2
        THEN LET loaded == load_cdr_schema(sample.encoding[2], fs)
             IN  IF loaded.ok
                 THEN [why |-> "ok", encoding |-> "ros2msg", schema |-> loaded.text,
                       msg_encoding |-> "cdr"]
                 ELSE Dropped("load")
        ELSE IF encoding_string_0 = "application/json"
        THEN IF payload[1] = "bytes" THEN Dropped("utf8")
             ELSE IF payload[1] # "json" THEN Dropped("parse")
             ELSE IF ~is_object(payload[2]) THEN Dropped("object")
             ELSE [why |-> "ok", encoding |-> "jsonschema",
                   schema |-> create_schema(payload[2]), msg_encoding |-> "json"]
        ELSE Dropped("encoding")

\* encoding_string_1.unwrap_or(topic.replace("/", "."))
schema_name(sample) ==
    IF Len(sample.encoding) >= 2 THEN sample.encoding[2] ELSE sample.topic

\* lines 232-247: add the schema, add the channel, insert the catalog entry
register(w, sample, resolved, fail) ==
    LET topic == sample.topic
        wr == w.mcap.writer
        counted == [w EXCEPT !.containers[wr].reg_calls[topic] = @ + 1,
                             !.calls = Append(@, "add_schema")]
        s == add_schema(w.containers[wr], schema_name(sample), resolved.encoding,
                        resolved.schema, fail # "add_schema")
    IN  IF ~s.ok THEN [counted EXCEPT !.outcome = "drop_add_schema"]
        ELSE LET c == add_channel(s.cont, s.id, topic, resolved.msg_encoding,
                                  fail # "add_channel")
                 called == [counted EXCEPT !.calls = Append(@, "add_channel")]
             IN  IF ~c.ok
                 THEN [called EXCEPT !.containers[wr] =
                           [s.cont EXCEPT !.reg_calls = counted.containers[wr].reg_calls],
                                     !.outcome = "drop_add_channel"]
                 ELSE [called EXCEPT
                         !.containers[wr] =
                             [c.cont EXCEPT !.reg_calls = counted.containers[wr].reg_calls,
                                            !.registered[topic] = @ + 1],
                         !.mcap.channel = Insert(@, topic, Channel_new(c.id))]

\* the lookup remembering a topic whose schema did not resolve
lookup_or_register_blacklists(w, sample, fs, fail) ==
    IF sample.topic \in DOMAIN w.mcap.channel THEN [w EXCEPT !.hit = TRUE]
    ELSE LET resolved == resolve_schema(sample, fs)
         IN  IF resolved.why # "ok"
             THEN [w EXCEPT !.outcome = "drop_" \o resolved.why,
                            !.mcap.channel = Insert(@, sample.topic, Channel_new(0))]
             ELSE register(w, sample, resolved, fail)

\* the lookup without the contains_key test of line 193
lookup_or_register_ignores_catalog(w, sample, fs, fail) ==
    LET resolved == resolve_schema(sample, fs)
    IN  IF resolved.why # "ok"
        THEN [w EXCEPT !.outcome = "drop_" \o resolved.why]
        ELSE register(w, sample, resolved, fail)

\* lines 193-248: nothing on a cache hit, resolution and registration on a miss
lookup_or_register(w, sample, fs, fail) ==
    IF sample.topic \in DOMAIN w.mcap.channel THEN [w EXCEPT !.hit = TRUE]
    ELSE LET resolved == resolve_schema(sample, fs)
         IN  IF resolved.why # "ok"
             THEN [w EXCEPT !.outcome = "drop_" \o resolved.why]
             ELSE register(w, sample, resolved, fail)

\* the append with sequence += 1 ahead of the write
append_counts_failed(w, sample, fail) ==
    LET topic == sample.topic
        wr == w.mcap.writer
        channel == w.mcap.channel[topic]
        r == write_to_known_channel(w.containers[wr], channel.channel_id,
                                    channel.sequence, fail # "write")
        called == [w EXCEPT !.calls = Append(@, "write"),
                            !.mcap.channel[topic].sequence = @ + 1]
    IN  IF ~r.ok THEN [called EXCEPT !.outcome = "write_failed"]
        ELSE [called EXCEPT !.containers[wr] = r.cont]

\* lines 250-270: append with the channel's sequence, count it on success
append(w, sample, fail) ==
    LET topic == sample.topic
        wr == w.mcap.writer
        channel == w.mcap.channel[topic]
        r == write_to_known_channel(w.containers[wr], channel.channel_id,
                                    channel.sequence, fail # "write")
        called == [w EXCEPT !.calls = Append(@, "write")]
    IN  IF ~r.ok THEN [called EXCEPT !.outcome = "write_failed"]
        ELSE [called EXCEPT !.containers[wr] = r.cont,
                            !.mcap.channel[topic].sequence = @ + 1]

\* the flush check with >= in place of >
periodic_flush_at_interval(w, now, lf, fail) ==
    IF now < lf
    THEN [w |-> [w EXCEPT !.panicked = TRUE, !.outcome = "panic_clock"], last_flush |-> lf]
    ELSE IF now - lf >= FlushSecs
    THEN [w |-> Mcap_flush(w, fail), last_flush |-> now]
    ELSE [w |-> [w EXCEPT !.outcome = "appended"], last_flush |-> lf]

\* lines 272-275.  duration_since() is an Err when the clock went backwards,
\* and unwrap() panics on it.
periodic_flush(w, now, lf, fail) ==
    IF now < lf
    THEN [w |-> [w EXCEPT !.panicked = TRUE, !.outcome = "panic_clock"], last_flush |-> lf]
    ELSE IF now - lf > FlushSecs
    THEN [w |-> Mcap_flush(w, fail), last_flush |-> now]
    ELSE [w |-> [w EXCEPT !.outcome = "appended"], last_flush |-> lf]

(*************************** ingestion loop ********************************)
\* a loop body that goes on to the next sample once the controller has looked
\* at a control-topic sample
iteration_skips_control(w0, sample, fs, fail, now, lf) ==
    LET c1 == recording_controller(w0, sample, now, fail)
        w1 == [c1 EXCEPT !.ctl_calls = c1.calls]
    IN  IF w1.panicked THEN [w |-> w1, last_flush |-> lf]
        ELSE IF w1.mcap.writer = 0 \/ base_mode_regex_is_match(sample.topic)
        THEN [w |-> [w1 EXCEPT !.outcome = "skip"], last_flush |-> lf]
        ELSE LET w2 == lookup_or_register(w1, sample, fs, fail)
             IN  IF w2.outcome # "" THEN [w |-> w2, last_flush |-> lf]
                 ELSE LET w3 == append(w2, sample, fail)
                      IN  IF w3.outcome # "" THEN [w |-> w3, last_flush |-> lf]
                          ELSE periodic_flush(w3, now, lf, fail)

\* one iteration of the while loop of Service::run, from the received sample
\* to the end of the body or the first continue or panic
iteration(w0, sample, fs, fail, now, lf) ==
    LET c1 == recording_controller(w0, sample, now, fail)
        w1 == [c1 EXCEPT !.ctl_calls = c1.calls]
    IN  IF w1.panicked THEN [w |-> w1, last_flush |-> lf]
        ELSE IF w1.mcap.writer = 0
        THEN [w |-> [w1 EXCEPT !.outcome = "skip"], last_flush |-> lf]
        ELSE LET w2 == lookup_or_register(w1, sample, fs, fail)
             IN  IF w2.outcome # "" THEN [w |-> w2, last_flush |-> lf]
                 ELSE LET w3 == append(w2, sample, fail)
                      IN  IF w3.outcome # "" THEN [w |-> w3, last_flush |-> lf]
                          ELSE periodic_flush(w3, now, lf, fail)

\* a panic unwinds out of run() and main(), dropping the Service and its Mcap
unwind(w) == IF w.panicked THEN Mcap_drop(w, "") ELSE w

World ==
    [mcap |-> [writer |-> mcap_writer, channel |-> mcap_channel],
     fresh |-> [writer |-> 0, channel |-> EmptyCatalog],
     containers |-> containers, panicked |-> FALSE, hit |-> FALSE,
     ctl_calls |-> <<>>, calls |-> <<>>, outcome |-> ""]

\* the failures worth choosing for a sample: none, or one of the calls the
\* iteration makes when nothing fails
Failures(sample, fs, now) ==
    LET calm == unwind(iteration(World, sample, fs, "", now, last_flush).w)
    IN  {""} \cup {calm.calls[i] : i \in 1..Len(calm.calls)}

\* the schema store matters to a sample with a schema token only
Stores(sample) ==
    IF Len(sample.encoding) >= 2 THEN SUBSET SchemaPaths ELSE {{}}

\* what is observed of an iteration: of the sample, its topic, what it asks
\* of the controller and how its schema resolves; the call that failed; whether
\* a container was open before; the calls made and how the iteration ended
Observation(topic, control, resolves, fail, armed, w, outcome) ==
    [topic |-> topic, control |-> control, resolves |-> resolves, fail |-> fail,
     armed |-> armed, hit |-> w.hit, ctl_calls |-> w.ctl_calls, calls |-> w.calls,
     outcome |-> outcome]

\* how far the clock moves between two iterations
TimeSteps == {0, FlushSecs + 1}

ServiceInit ==
    /\ mcap_writer = 0
    /\ mcap_channel = EmptyCatalog
    /\ containers = <<>>
    /\ clock = 0
    /\ last_flush = 0
    /\ status = "running"
    /\ delivered = 0
    /\ last = Observation(<<>>, "none", "", "", FALSE, World, "init")

Init ==
    /\ ServiceInit
    /\ manager = <<>>
    /\ arg = <<>>
    /\ result = <<>>

\* recv_async() returns a sample and the loop body runs on it; the wall clock
\* has moved by dt since the previous iteration
Receive(samples, steps) ==
    /\ status = "running"
    /\ delivered < MaxMsgs
    /\ \E sample \in samples, dt \in steps :
         /\ clock + dt >= 0
         /\ clock + dt <= MaxJumps * (FlushSecs + 1)
         /\ \E fs \in Stores(sample) :
              \E fail \in Failures(sample, fs, clock + dt) :
                LET now == clock + dt
                    r == iteration(World, sample, fs, fail, now, last_flush)
                    w == unwind(r.w)
                IN  /\ clock' = now
                    /\ last_flush' = r.last_flush
                    /\ mcap_writer' = w.mcap.writer
                    /\ mcap_channel' = w.mcap.channel
                    /\ containers' = w.containers
                    /\ status' = IF w.panicked THEN "panicked" ELSE "running"
                    /\ delivered' = delivered + 1
                    /\ last' = Observation(sample.topic, control_of(sample),
                                            resolve_schema(sample, fs).why, fail,
                                            mcap_writer # 0, w, w.outcome)
    /\ UNCHANGED fn_vars

Recv == Receive(Samples, TimeSteps)

\* recv_async() returns Err: run() returns, main() returns and drops the Service
SourceClosed ==
    /\ status = "running"
    /\ LET w == Mcap_drop(World, "")
       IN  /\ mcap_writer' = w.mcap.writer
           /\ mcap_channel' = w.mcap.channel
           /\ containers' = w.containers
           /\ last' = Observation(<<>>, "none", "", "", mcap_writer # 0, w, "closed")
    /\ status' = "exited"
    /\ UNCHANGED <<clock, last_flush, delivered>>
    /\ UNCHANGED fn_vars

Next == Recv \/ SourceClosed

Spec == Init /\ [][Next]_vars

(***************************************************************************)
(*                              properties                                 *)
(***************************************************************************)
\* number of times call c occurs in the call log
Count(c, log) == Cardinality({i \in 1..Len(log) : log[i] = c})

\* the latest step was a delivered sample
Delivered == last.outcome \notin {"init", "closed"}

\* a container was open when the latest sample reached the catalog lookup
Reached ==
    /\ Delivered
    /\ \/ last.armed /\ last.control # "clear"
       \/ ~last.armed /\ last.control = "set" /\ last.fail # "open"

\* the messages of container c on channel id, in append order
RECURSIVE OnChannel(_, _)
OnChannel(msgs, id) ==
    IF msgs = <<>> THEN <<>>
    ELSE IF Head(msgs).channel_id = id
         THEN <<Head(msgs).sequence>> \o OnChannel(Tail(msgs), id)
         ELSE OnChannel(Tail(msgs), id)

\* the channel records of container c for a topic
ChannelsOf(c, topic) == {i \in 1..Len(c.channels) : c.channels[i].topic = topic}

\* C1: in the recording controller, a control message with the armed bit set
\* while Disarmed makes exactly one container open (and the new container is
\* the open one when the open succeeds); one with the bit clear while Armed
\* makes exactly one finish, of the container that was open; a control message
\* repeating the current state makes neither an open nor a finish.
C1_ControllerTransitions ==
    Delivered =>
        LET opens == Count("open", last.ctl_calls)
            finishes == Count("finish", last.ctl_calls)
        IN  /\ last.control = "set" /\ ~last.armed =>
                /\ opens = 1 /\ finishes = 0
                /\ last.fail # "open" /\ status = "running" =>
                       /\ mcap_writer = Len(containers)
                       /\ containers[mcap_writer].finish_calls = 0
            /\ last.control = "clear" /\ last.armed =>
                /\ opens = 0 /\ finishes = 1
                /\ mcap_writer = 0
                /\ containers[Len(containers)].finish_calls = 1
            /\ last.control = "set" /\ last.armed => opens = 0 /\ finishes = 0
            /\ last.control = "clear" /\ ~last.armed => opens = 0 /\ finishes = 0
            /\ last.control = "none" => opens = 0 /\ finishes = 0

\* C1 witness: armed, the armed bit repeated, then disarmed: one container,
\* holding the two control records, finished once
C1_Witness ==
    /\ last.control = "clear" /\ last.armed
    /\ Len(containers) = 1
    /\ Len(containers[1].messages) = 2
    /\ containers[1].finish_calls = 1
    /\ status = "running"

\* C2 (state part): at most one container is unfinished, and it is the one
\* self.mcap.writer holds
C2_OneOpen ==
    \A i \in 1..Len(containers) :
        containers[i].finish_calls = 0 => mcap_writer = i

\* C2 (step part): a finished container receives no schema, channel or
\* message, and a container is created only when every earlier one is finished
C2_Step ==
    /\ \A i \in 1..Len(containers) :
          containers[i].finish_calls > 0 =>
              /\ containers'[i].schemas = containers[i].schemas
              /\ containers'[i].channels = containers[i].channels
              /\ containers'[i].messages = containers[i].messages
    /\ Len(containers') > Len(containers) =>
          /\ Len(containers') = Len(containers) + 1
          /\ \A i \in 1..Len(containers) : containers[i].finish_calls > 0

\* C2: at most one container is open at a time; a finalized container never
\* receives a later schema, channel or message write; a new container is
\* opened only when no other container is open.
C2_ContainerInvariant == [](C2_OneOpen) /\ [][C2_Step]_vars

\* C2 witness: a second container is open and written to after the first was
\* finished with its records
C2_Witness ==
    /\ Len(containers) = 2
    /\ containers[1].finish_calls = 1
    /\ Len(containers[1].messages) = 1
    /\ mcap_writer = 2
    /\ Len(containers[2].messages) = 1

\* the latest sample was dropped before the append: its topic had no catalog
\* entry and its schema did not resolve or its registration was rejected
DroppedBeforeAppend ==
    /\ ~last.hit
    /\ last.resolves # "ok" \/ last.fail \in {"add_schema", "add_channel"}

\* C3 (as claimed): a topic that got a message through to the append of the
\* open container had exactly one registration call made for it
C3_ExactlyOneRegistrationCall ==
    mcap_writer # 0 =>
        \A t \in DOMAIN mcap_channel : containers[mcap_writer].reg_calls[t] = 1

\* C3 (amended): per topic and container at most one registration completes
\* and the container holds as many channels for the topic (never two); the
\* catalog of the open container holds exactly the registered topics; a
\* sample whose topic is in the catalog makes no registration call; a sample
\* makes one append call unless it is dropped before the append, and then none.
C3_LazyRegistration ==
    /\ \A i \in 1..Len(containers) : \A t \in Topics :
          /\ containers[i].registered[t] <= 1
          /\ Cardinality(ChannelsOf(containers[i], t)) = containers[i].registered[t]
          /\ containers[i].registered[t] <= containers[i].reg_calls[t]
    /\ mcap_writer # 0 =>
          \A t \in Topics :
              t \in DOMAIN mcap_channel <=> containers[mcap_writer].registered[t] = 1
    /\ Reached =>
          /\ Count("add_schema", last.calls) <= 1
          /\ Count("add_channel", last.calls) <= Count("add_schema", last.calls)
          /\ last.hit => Count("add_schema", last.calls) = 0
          /\ Count("write", last.calls) = IF DroppedBeforeAppend THEN 0 ELSE 1
    /\ Delivered /\ ~Reached =>
          Count("add_schema", last.calls) + Count("write", last.calls) = 0

\* C3 witness: the first registration for t1 was rejected, the next message
\* registered it, and its record is in the container
C3_Witness ==
    /\ mcap_writer # 0
    /\ containers[mcap_writer].reg_calls[TopicT1] = 2
    /\ containers[mcap_writer].registered[TopicT1] = 1
    /\ TopicT1 \in DOMAIN mcap_channel
    /\ mcap_channel[TopicT1].sequence = 1

\* C4: in every container the records of one channel carry the sequence
\* numbers 0, 1, 2, ... in append order: each record's sequence is the number
\* of earlier records of its channel.
C4_SequenceNumbers ==
    \A i \in 1..Len(containers) :
        LET msgs == containers[i].messages
        IN  \A j \in 1..Len(msgs) :
                msgs[j].sequence =
                    Cardinality({k \in 1..(j - 1) : msgs[k].channel_id = msgs[j].channel_id})

\* C4 witness: two records of one channel around a record of another channel
C4_Witness ==
    /\ mcap_writer # 0
    /\ LET msgs == containers[mcap_writer].messages
       IN  /\ Len(msgs) = 3
           /\ msgs[1].channel_id = msgs[3].channel_id
           /\ msgs[2].channel_id # msgs[1].channel_id
           /\ msgs[3].sequence = 1

\* a sample delivered while no container is open and that does not arm
C5_Step ==
    (delivered' = delivered + 1 /\ mcap_writer = 0 /\ last'.control # "set") =>
        /\ containers' = containers
        /\ mcap_channel' = mcap_channel
        /\ mcap_writer' = 0
        /\ last_flush' = last_flush
        /\ status' = "running"
        /\ last'.calls = <<>>
        /\ last'.outcome = "skip"

\* C5: while Disarmed a delivered message that does not arm has no recording
\* side effect: no writer call, no new container, every created container
\* (the finalized ones with their records) and the catalog with its sequence
\* counters unchanged.
C5_DisarmedNoSideEffect == [][C5_Step]_vars

\* C5 witness: a message on t1 was skipped after the disarm; the finalized
\* container holds the one record appended while it was open
C5_Witness ==
    /\ last.topic = TopicT1 /\ last.outcome = "skip"
    /\ Len(containers) = 1
    /\ containers[1].finish_calls = 1
    /\ Len(containers[1].messages) = 1

\* C6: every created container has its writer finished exactly once by the
\* time the process has left the loop (source closed, or a panic unwinding),
\* never more than once at any time, and not at all while it is the open one;
\* the Drop of the Mcap replaced on arming finishes nothing, and the Drop at
\* exit finishes only a writer that is still open.
C6_FinalizedExactlyOnce ==
    /\ \A i \in 1..Len(containers) :
          containers[i].finish_calls =
              IF status = "running" /\ i = mcap_writer THEN 0 ELSE 1
    /\ status # "running" => mcap_writer = 0
    /\ Delivered /\ last.control = "set" /\ ~last.armed =>
          Count("finish", last.ctl_calls) = 0
    /\ last.outcome = "closed" =>
          Count("finish", last.calls) = IF last.armed THEN 1 ELSE 0

\* C6 witness: the source closed while the second container was open
C6_Witness ==
    /\ status = "exited"
    /\ last.armed
    /\ Len(containers) = 2
    /\ containers[2].finish_calls = 1

\* C7 (as claimed): the loop is left by a panic only when a container open
\* failed; after any other failure it goes on
C7_OnlyOpenFailureAborts == status = "panicked" => last.fail = "open"

\* C8: a sample dropped in resolution or registration makes no append call
\* and leaves its topic out of the catalog, and the loop goes on; a sample
\* whose schema does not resolve makes no writer call at all; no call is made
\* twice for one sample; a sample whose topic has no catalog entry and whose
\* schema resolves is registered and appended (sequence 0) when no call fails.
C8_DropAndRetry ==
    Reached =>
        /\ \A c \in Calls : Count(c, last.calls) <= 1
        /\ DroppedBeforeAppend =>
              /\ Count("write", last.calls) = 0
              /\ last.topic \notin DOMAIN mcap_channel
              /\ status = "running"
        /\ ~last.hit /\ last.resolves # "ok" => last.calls = last.ctl_calls
        /\ ~last.hit /\ last.resolves = "ok" /\ last.fail = "" =>
              /\ Count("add_schema", last.calls) = 1
              /\ Count("add_channel", last.calls) = 1
              /\ Count("write", last.calls) = 1
              /\ last.topic \in DOMAIN mcap_channel
              /\ mcap_channel[last.topic].sequence = 1
              /\ OnChannel(containers[mcap_writer].messages,
                           mcap_channel[last.topic].channel_id) = <<0>>

\* C8 witness: t2 was dropped at its registration and the next message on t2
\* was registered and appended
C8_Witness ==
    /\ mcap_writer # 0
    /\ last.topic = TopicT2 /\ ~last.hit /\ last.fail = ""
    /\ containers[mcap_writer].reg_calls[TopicT2] = 2
    /\ TopicT2 \in DOMAIN mcap_channel
    /\ mcap_channel[TopicT2].sequence = 1

\* C9: every catalog entry of the open container names a channel of that
\* container registered for its topic, and its sequence is the number of that
\* channel's records in that container; every record of a container refers to
\* a channel of the same container; right after arming the catalog holds at
\* most the arming sample's topic, registered in that very iteration.
C9_FreshCatalog ==
    /\ mcap_writer # 0 =>
          \A t \in DOMAIN mcap_channel :
              LET c == containers[mcap_writer]
                  ch == mcap_channel[t]
              IN  /\ ch.channel_id < Len(c.channels)
                  /\ c.channels[ch.channel_id + 1].topic = t
                  /\ ch.sequence = Len(OnChannel(c.messages, ch.channel_id))
    /\ \A i \in 1..Len(containers) :
          \A j \in 1..Len(containers[i].messages) :
              containers[i].messages[j].channel_id < Len(containers[i].channels)
    /\ Delivered /\ last.control = "set" /\ ~last.armed /\ mcap_writer # 0 =>
          /\ DOMAIN mcap_channel \subseteq {last.topic}
          /\ last.topic \in DOMAIN mcap_channel =>
                Count("add_schema", last.calls) = 1

\* C9 witness: the control topic, registered and recorded in the first
\* container, is registered again in the second with sequence 0
C9_Witness ==
    /\ Len(containers) = 2
    /\ mcap_writer = 2
    /\ ChannelsOf(containers[1], ControlTopic) # {}
    /\ Len(containers[1].messages) = 1
    /\ ChannelsOf(containers[2], ControlTopic) # {}
    /\ containers[2].messages = <<[channel_id |-> 0, sequence |-> 0]>>

\* scenario A: the first sample armed the recorder and the second, an object
\* on t1 in the structured-text encoding, went through without a failure
ScenarioA ==
    /\ delivered = 2
    /\ status = "running"
    /\ last.armed
    /\ mcap_writer = 1
    /\ last.topic = TopicT1 /\ last.resolves = "ok" /\ last.fail = ""

\* the schemas of container c registered under a name
SchemasNamed(c, name) == {i \in 1..Len(c.schemas) : c.schemas[i].name = name}

\* C10 (as claimed): after scenario A the container holds exactly one schema,
\* one channel, for t1, and one record, with sequence 0
C10_ExactlyOne ==
    ScenarioA =>
        LET c == containers[1]
        IN  /\ Len(c.schemas) = 1
            /\ Len(c.channels) = 1
            /\ c.channels[1].topic = TopicT1
            /\ c.messages = <<[channel_id |-> 0, sequence |-> 0]>>

\* C10 (amended): after scenario A the container holds exactly one schema and
\* one channel for t1 and exactly one record on it, with sequence 0; all it
\* holds besides is what the arming control sample wrote for itself: at most
\* one schema, one channel and one record (sequence 0) of the control topic.
C10_ScenarioA ==
    ScenarioA =>
        LET c == containers[1]
            t1 == mcap_channel[TopicT1].channel_id
        IN  /\ Cardinality(SchemasNamed(c, TopicT1)) = 1
            /\ Cardinality(ChannelsOf(c, TopicT1)) = 1
            /\ OnChannel(c.messages, t1) = <<0>>
            /\ Cardinality(SchemasNamed(c, ControlTopic)) <= 1
            /\ Cardinality(ChannelsOf(c, ControlTopic))
                   <= Cardinality(SchemasNamed(c, ControlTopic))
            /\ Len(c.schemas) = 1 + Cardinality(SchemasNamed(c, ControlTopic))
            /\ Len(c.channels) = 1 + Cardinality(ChannelsOf(c, ControlTopic))
            /\ Len(c.messages) <= Len(c.channels)
            /\ \A j \in 1..Len(c.messages) : c.messages[j].sequence = 0

\* C10 witness: the arming sample was itself recorded, so the container holds
\* two schemas, two channels and two records
C10_Witness ==
    /\ ScenarioA
    /\ Len(containers[1].schemas) = 2
    /\ Len(containers[1].channels) = 2
    /\ Len(containers[1].messages) = 2

(********************* create_schema exercised on its own ******************)
\* longest array and largest object drawn as an argument
MaxLen == 2
\* the largest 16-bit limb
LimbMax == 65535

I64Max == <<"num", "PosInt", <<SignLimb - 1, LimbMax, LimbMax, LimbMax>>>>
U64Max == <<"num", "PosInt", <<LimbMax, LimbMax, LimbMax, LimbMax>>>>
I64Min == <<"num", "NegInt", <<SignLimb, 0, 0, 0>>>>

Scalars ==
    {Null, Bool, Str, Float, PosInt(1), PosInt(2), NegInt(1),
     I64Max, BigPosInt, U64Max, I64Min}

SeqsUpTo(S, n) == UNION {[1..k -> S] : k \in 0..n}

KeysOf(entries) == {entries[i][1] : i \in DOMAIN entries}
KeySet == {Keys[i] : i \in DOMAIN Keys}

\* a serde_json Map holds each key once
Entries(S, n) ==
    {e \in SeqsUpTo(KeySet \X S, n) : Cardinality(KeysOf(e)) = Len(e)}

\* values nested inside arrays and objects
Seeds ==
    {Arr(<<>>), Arr(<<Str, Null>>), Obj(<<>>),
     Obj(<< <<"b", Str>>, <<"a", PosInt(1)>> >>),
     Obj(<< <<"a", PosInt(2)>>, <<"b", Str>> >>)}

Values ==
    Scalars
    \cup {Arr(s) : s \in SeqsUpTo(Scalars, MaxLen)}
    \cup {Obj(e) : e \in Entries(Scalars, MaxLen)}
    \cup {Arr(<<x>>) : x \in Seeds}
    \cup {Arr(<<Null, x>>) : x \in Seeds}
    \cup {Obj(<< <<"b", x>>, <<"a", Str>> >>) : x \in Seeds}

\* the value handed to create_schema; result is <<>> until the call returns
InitSchema ==
    /\ ServiceInit
    /\ manager = <<>>
    /\ arg \in Values
    /\ result = <<>>

\* create_schema(&value)
CallCreateSchema ==
    /\ result = <<>>
    /\ result' = <<create_schema(arg)>>
    /\ UNCHANGED <<manager, arg>>
    /\ UNCHANGED svc_vars

NextSchema == CallCreateSchema

SpecSchema == InitSchema /\ [][NextSchema]_vars

\* the same map with its entries in every order
Reorderings(v) ==
    IF is_object(v) /\ Len(v[2]) > 0
    THEN {Obj([i \in DOMAIN v[2] |-> v[2][p[i]]]) : p \in Permutations(DOMAIN v[2])}
    ELSE {v}

\* the same value with the entries of every object, nested ones too, reversed
RECURSIVE Reversed(_)
Reversed(v) ==
    CASE v[1] = "arr" -> Arr([i \in DOMAIN v[2] |-> Reversed(v[2][i])])
      [] v[1] = "obj" ->
            Obj([i \in DOMAIN v[2] |->
                   LET e == v[2][Len(v[2]) + 1 - i] IN <<e[1], Reversed(e[2])>>])
      [] OTHER -> v

\* a value of the same shape and other content: every scalar replaced by another
\* of its type, every array cut down to its first element
RECURSIVE Relabel(_)
Relabel(v) ==
    CASE v = PosInt(1) -> PosInt(2)
      [] v = PosInt(2) -> I64Max
      [] v = I64Max -> PosInt(1)
      [] v = NegInt(1) -> I64Min
      [] v = I64Min -> NegInt(1)
      [] v = BigPosInt -> U64Max
      [] v = U64Max -> BigPosInt
      [] v[1] = "arr" ->
            IF Len(v[2]) = 0 THEN v ELSE Arr(<<Relabel(v[2][1])>>)
      [] v[1] = "obj" ->
            Obj([i \in DOMAIN v[2] |-> <<v[2][i][1], Relabel(v[2][i][2])>>])
      [] OTHER -> v

\* C11: create_schema of an object is an object schema whose property keys are
\* the value's keys, in ascending order, each with the schema of its child; the
\* schema is the same for every insertion order of the same entries (at every
\* level) and for every value of the same shape; an array yields the schema of
\* its first element only, or {} when it is empty.
C11_SchemaShape ==
    result # <<>> =>
        LET schema == result[1]
        IN  /\ is_object(arg) =>
                 /\ schema.type = "object"
                 /\ KeysOf(schema.properties) = KeysOf(arg[2])
                 /\ Len(schema.properties) = Len(arg[2])
                 /\ \A i \in 1..(Len(schema.properties) - 1) :
                        KeyRank(schema.properties[i][1])
                            < KeyRank(schema.properties[i + 1][1])
                 /\ \A i \in DOMAIN arg[2] :
                        \E j \in DOMAIN schema.properties :
                            schema.properties[j]
                                = <<arg[2][i][1], create_schema(arg[2][i][2])>>
            /\ \A v \in Reorderings(arg) : create_schema(v) = schema
            /\ create_schema(Reversed(arg)) = schema
            /\ create_schema(Relabel(arg)) = schema
            /\ arg[1] = "arr" =>
                 /\ schema.type = "array"
                 /\ schema.items = IF Len(arg[2]) = 0 THEN <<>>
                                   ELSE create_schema(arg[2][1])

\* an object given with key b before key a, its child an object too
C11_Witness ==
    /\ result # <<>>
    /\ is_object(arg)
    /\ Len(arg[2]) = 2
    /\ arg[2][1][1] = "b"
    /\ arg[2][2][1] = "a"
    /\ is_object(arg[2][1][2])
    /\ Len(arg[2][1][2][2]) = 2
    /\ result[1].properties[1][1] = "a"

(******************** load_cdr_schema exercised on its own *****************)
\* most components of a dotted schema identifier
MaxParts == 3

\* what split(".") can yield between two dots: a name, or nothing
Parts == {"pkgX", "MsgY", ""}

\* split(".") yields at least one component, "" for the empty identifier
Identifiers == {s \in SeqsUpTo(Parts, MaxParts) : Len(s) >= 1}

\* the .msg files that may be present and readable under the schema root
LoaderPaths == {<<"pkgX", "MsgY">>, <<"MsgY", "pkgX">>}

InitLoader ==
    /\ ServiceInit
    /\ manager = <<>>
    /\ arg \in Identifiers \X SUBSET LoaderPaths
    /\ result = <<>>

\* load_cdr_schema(schema)
CallLoadCdrSchema ==
    /\ result = <<>>
    /\ result' = <<load_cdr_schema(arg[1], arg[2])>>
    /\ UNCHANGED <<manager, arg>>
    /\ UNCHANGED svc_vars

NextLoader == CallLoadCdrSchema

SpecLoader == InitLoader /\ [][NextLoader]_vars

\* C12: load_cdr_schema succeeds only for an identifier of exactly two
\* components (package and name) whose file exists and is readable, and fails
\* for every other identifier: one component, or more than two.
C12_ExactlyPackageAndName ==
    result # <<>> =>
        (result[1].ok <=> /\ Len(arg[1]) = 2
                          /\ <<arg[1][1], arg[1][2]>> \in arg[2])

(************************** cli.rs: MANAGER, zkey ***************************)
(* A command-line string is the sequence of its characters.                *)
\* most --zkey arguments given on one command line
MaxArgs == 3

\* the --zkey arguments a command line may carry: no '=', plain KEY=VALUE, the
\* same key with another value, a longer key, a value holding '=', an empty
\* key, an empty value
ZkeyArgs ==
    { <<"a">>,
      <<"a", "=", "b">>,
      <<"a", "=", "c">>,
      <<"a", "b", "=", "c">>,
      <<"a", "=", "b", "=", "c">>,
      <<"=", "a">>,
      <<"a", "=">> }

\* Args.zkey as parsed from a command line
ZkeyLists == SeqsUpTo(ZkeyArgs, MaxArgs)
\* the command lines handed to init_with once MANAGER is set
LaterZkeyLists == SeqsUpTo(ZkeyArgs, 1)

\* a variant that splits at the last '=' (rsplit_once)
RECURSIVE split_once_last(_, _)
split_once_last(s, i) ==
    IF i < 1 THEN <<>>
    ELSE IF s[i] = "=" THEN <<SubSeq(s, 1, i - 1), SubSeq(s, i + 1, Len(s))>>
    ELSE split_once_last(s, i - 1)

\* str::split_once('='), scanning from position i: <<>> for None, else <<key, value>>
RECURSIVE split_once(_, _)
split_once(s, i) ==
    IF i > Len(s) THEN <<>>
    ELSE IF s[i] = "=" THEN <<SubSeq(s, 1, i - 1), SubSeq(s, i + 1, Len(s))>>
    ELSE split_once(s, i + 1)

\* HashMap::insert: a key already present takes the new value
HashMap_insert(m, k, v) ==
    [x \in DOMAIN m \cup {k} |-> IF x = k THEN v ELSE m[x]]

\* zkey_config over args().zkey, from argument i on, config being the map so far
RECURSIVE zkey_config(_, _, _)
zkey_config(zkey, i, config) ==
    IF i > Len(zkey) THEN config
    ELSE LET kv == split_once(zkey[i], 1)
         IN  IF kv # <<>>
             THEN zkey_config(zkey, i + 1, HashMap_insert(config, kv[1], kv[2]))
             ELSE zkey_config(zkey, i + 1, config)

\* OnceCell::get_or_init: the closure runs only on an empty cell
get_or_init(cell, value) == IF cell = <<>> THEN <<value>> ELSE cell

\* init_with(args); arg keeps the zkey list of the call
InitWith ==
    /\ \E zkey \in (IF manager = <<>> THEN ZkeyLists ELSE LaterZkeyLists) :
         /\ manager' = get_or_init(manager, zkey)
         /\ arg' = zkey
    /\ UNCHANGED result
    /\ UNCHANGED svc_vars

\* zkey_config(); args() unwraps MANAGER.get() and panics on an empty cell
ZkeyConfig ==
    /\ result' = IF manager = <<>> THEN <<"panic">>
                 ELSE <<"ok", zkey_config(manager[1], 1, <<>>)>>
    /\ UNCHANGED <<manager, arg>>
    /\ UNCHANGED svc_vars

NextCli == InitWith \/ ZkeyConfig

SpecCli == Init /\ [][NextCli]_vars

\* position of the first '=' of a string that holds one
FirstEq(s) == CHOOSE i \in DOMAIN s : s[i] = "=" /\ \A j \in 1..(i - 1) : s[j] # "="
KeyAt(zkey, i) == SubSeq(zkey[i], 1, FirstEq(zkey[i]) - 1)
ValueAt(zkey, i) == SubSeq(zkey[i], FirstEq(zkey[i]) + 1, Len(zkey[i]))
\* the arguments that hold an '='
Valid(zkey) == {i \in DOMAIN zkey : \E j \in DOMAIN zkey[i] : zkey[i][j] = "="}
\* a map as the set of its entries
EntriesOf(m) == {<<k, m[k]>> : k \in DOMAIN m}
ZkeyReturned == Len(result) = 2 /\ result[1] = "ok"

\* C13 as stated: the map returned by zkey_config holds exactly the entries got
\* by splitting each argument that contains '=' at its first '='.
C13_ExactlyTheEntries ==
    ZkeyReturned =>
        EntriesOf(result[2])
            = {<<KeyAt(manager[1], i), ValueAt(manager[1], i)>> : i \in Valid(manager[1])}

C13_Map ==
    ZkeyReturned =>
        LET zkey == manager[1]
            m == result[2]
        IN  /\ DOMAIN m = {KeyAt(zkey, i) : i \in Valid(zkey)}
            /\ \A i \in Valid(zkey) :
                 (\A j \in Valid(zkey) : j > i => KeyAt(zkey, j) # KeyAt(zkey, i))
                     => m[KeyAt(zkey, i)] = ValueAt(zkey, i)
            /\ Cardinality(DOMAIN m) <= Cardinality(Valid(zkey))

C13_InitOnce ==
    /\ manager = <<>> /\ manager' # <<>> => manager' = <<arg'>>
    /\ manager # <<>> => manager' = manager

\* C13: the map returned by zkey_config has one entry per distinct key among the
\* arguments that contain '=', each split at its first '=', the value being that
\* of the last argument with that key; an argument without '=' contributes no
\* entry; init_with stores its arguments on the first call and leaves MANAGER
\* alone on every later call.
C13_ZkeyConfig == [](C13_Map) /\ [][C13_InitOnce]_vars

\* three arguments, one without '=', give a map of size 2, after a second
\* init_with with other arguments
C13_Witness ==
    /\ ZkeyReturned
    /\ Len(manager[1]) = 3
    /\ Cardinality(Valid(manager[1])) = 2
    /\ Cardinality(DOMAIN result[2]) = 2
    /\ arg # manager[1]
    /\ \E i \in Valid(manager[1]) : Len(ValueAt(manager[1], i)) = 3

(********************* further properties of Service::run ******************)
\* the iteration of this step was handed a sample whose append call failed
C14_FailedAppend ==
    (delivered' = delivered + 1 /\ last'.fail = "write") =>
        /\ status' = "running"
        /\ last'.outcome = "write_failed"
        /\ mcap_writer' # 0
        /\ last_flush' = last_flush
        /\ LET t == last'.topic
               c == containers'[mcap_writer']
           IN  /\ t \in DOMAIN mcap_channel'
               /\ mcap_channel'[t].sequence
                      = Len(OnChannel(c.messages, mcap_channel'[t].channel_id))
               /\ c.messages = IF mcap_writer' = mcap_writer
                               THEN containers[mcap_writer].messages ELSE <<>>
               /\ c.finish_calls = 0
               /\ last'.hit =>
                      /\ mcap_channel' = mcap_channel
                      /\ mcap_writer' = mcap_writer
                      /\ containers' = containers
               /\ ~last'.hit =>
                      /\ mcap_channel'[t].sequence = 0
                      /\ mcap_writer' = mcap_writer =>
                             \A u \in DOMAIN mcap_channel' \ {t} :
                                 /\ u \in DOMAIN mcap_channel
                                 /\ mcap_channel'[u] = mcap_channel[u]

\* the sample after a failed append is on the same topic and its append succeeds
C14_Reuse ==
    (/\ delivered' = delivered + 1
     /\ last.fail = "write"
     /\ last'.topic = last.topic
     /\ last'.fail # "write"
     /\ Count("write", last'.calls) = 1
     /\ mcap_writer' = mcap_writer) =>
        LET t == last.topic
            msgs == containers'[mcap_writer].messages
        IN  /\ msgs = Append(containers[mcap_writer].messages,
                             [channel_id |-> mcap_channel[t].channel_id,
                              sequence |-> mcap_channel[t].sequence])
            /\ mcap_channel'[t].sequence = mcap_channel[t].sequence + 1
            /\ mcap_channel'[t].channel_id = mcap_channel[t].channel_id

\* C14: an append that fails does not end the loop and leaves the topic's
\* catalog entry with its sequence counter, the counters of all other channels,
\* the records written so far, the recording state and the open container as
\* they were before the append (for a topic registered in this very iteration:
\* the new entry stays, with sequence 0); the next successful append on that
\* channel carries the sequence number the failed one would have carried.
C14_FailedAppendFrame == [][C14_FailedAppend /\ C14_Reuse]_vars

\* a topic whose first append failed gets sequence 0 on its next message
C14_Witness ==
    /\ status = "running"
    /\ mcap_writer # 0
    /\ last.hit
    /\ last.fail = ""
    /\ Count("write", last.calls) = 1
    /\ last.topic \in DOMAIN mcap_channel
    /\ mcap_channel[last.topic].sequence = 1
    /\ Len(containers[mcap_writer].messages) = 2
    /\ containers[mcap_writer].messages[2].sequence = 0

\* a sample on a topic of the catalog, delivered while the container stays open
C15_Step ==
    (/\ delivered' = delivered + 1
     /\ mcap_writer # 0
     /\ last'.control # "clear"
     /\ last'.topic \in DOMAIN mcap_channel) =>
        LET t == last'.topic
            before == containers[mcap_writer]
            after == containers'[mcap_writer]
        IN  /\ last'.hit
            /\ Count("add_schema", last'.calls) = 0
            /\ Count("add_channel", last'.calls) = 0
            /\ after.schemas = before.schemas
            /\ after.channels = before.channels
            /\ Count("write", last'.calls) = 1
            /\ mcap_channel'[t].channel_id = mcap_channel[t].channel_id
            /\ last'.fail # "write" =>
                   after.messages =
                       Append(before.messages,
                              [channel_id |-> mcap_channel[t].channel_id,
                               sequence |-> mcap_channel[t].sequence])

\* C15: once a topic has a channel registered in the open container, every later
\* message on that topic while the container stays open is appended to the same
\* channel id, whatever its encoding and payload (also an unrecognized encoding
\* or a payload that a topic without channel would be dropped for), and nothing
\* is registered again.
C15_CacheHit == [][C15_Step]_vars

\* a sample with an encoding the catalog would not resolve, appended on a hit
C15_Witness ==
    /\ status = "running"
    /\ mcap_writer # 0
    /\ last.hit
    /\ last.resolves = "encoding"
    /\ last.outcome = "appended"
    /\ last.topic = TopicT1
    /\ mcap_channel[TopicT1].sequence = 2

\* a sample the controller gets no bit from: its topic does not match the
\* pattern, or its payload is not UTF-8, does not parse, has no "bits" or has
\* "bits" that is not an unsigned integer
C16_Step ==
    (delivered' = delivered + 1 /\ last'.control = "none") =>
        /\ last'.ctl_calls = <<>>
        /\ Len(containers') = Len(containers)
        /\ status' = "running" =>
               /\ mcap_writer' = mcap_writer
               /\ \A i \in 1..Len(containers) :
                      /\ containers'[i].finish_calls = containers[i].finish_calls
                      /\ containers'[i].path = containers[i].path

\* C16: a control message whose payload cannot be read as {"bits": unsigned}
\* makes the controller do nothing, in either state: no open, no finish, and
\* after the iteration the recorder is Armed exactly if it was before, with the
\* same container open; the same holds for every message whose topic does not
\* match the control pattern.
C16_ParseFailureKeepsState == [][C16_Step]_vars

\* Armed, a control-topic sample that is not UTF-8 arrives, still Armed
C16_Witness ==
    /\ last.control = "none"
    /\ base_mode_regex_is_match(last.topic)
    /\ last.resolves = "utf8"
    /\ last.armed
    /\ mcap_writer # 0
    /\ containers[mcap_writer].finish_calls = 0
    /\ delivered = 3

(************************ the flush interval, second by second *************)
\* the samples that matter to the flush check: arming, disarming, one that is
\* appended and one that is dropped
ClockSamples ==
    { Sample(ControlTopic, Json, Bits(PosInt(SafetyArmed))),
      Sample(ControlTopic, Json, Bits(PosInt(0))),
      Sample(TopicT1, Json, AB),
      Sample(TopicT1, Json, <<"bytes">>) }

\* the wall clock between two iterations: set back, unchanged, a second later,
\* the flush interval later, a second more than that
ClockSteps == {0 - 1, 0, 1, FlushSecs, FlushSecs + 1}

Tick == Receive(ClockSamples, ClockSteps)

NextClock == Tick \/ SourceClosed

SpecClock == Init /\ [][NextClock]_vars

\* the iteration of the latest step wrote its record
Appended == Count("write", last.calls) = 1 /\ last.fail # "write"
\* the calls of the latest iteration after the controller stage
Flushes == Count("flush", last.calls)

\* C17 as stated: with a container open, every iteration more than FlushSecs
\* after the reference time flushes and resets the reference time; there is no
\* flush when FlushSecs or less have elapsed, and none with no container open.
C17_Stated ==
    delivered' = delivered + 1 =>
        /\ Reached' /\ clock' - last_flush > FlushSecs =>
               /\ Flushes' = 1
               /\ last'.fail # "flush" => last_flush' = clock'
        /\ clock' - last_flush <= FlushSecs => Flushes' = 0 /\ last_flush' = last_flush
        /\ ~Reached' => Flushes' = 0 /\ last_flush' = last_flush

C17_EveryIterationFlushes == [][C17_Stated]_vars

C17_Step ==
    delivered' = delivered + 1 =>
        /\ Appended' /\ clock' - last_flush > FlushSecs =>
               /\ Flushes' = 1
               /\ last'.fail # "flush" => last_flush' = clock' /\ status' = "running"
        /\ ~Appended' \/ clock' - last_flush <= FlushSecs =>
               /\ Flushes' = 0
               /\ last_flush' = last_flush
        /\ Appended' => Reached'

\* C17: an iteration that appends its record more than FlushSecs seconds after
\* the reference time (the previous flush, or the start of the loop) calls flush
\* once and, when flush returns, takes its own time as the new reference time;
\* every other iteration (one that skips or drops its message or whose append
\* fails, whatever time has passed, one that runs FlushSecs or less after the
\* reference time, one with no container open) makes no flush and leaves the
\* reference time alone.
C17_PeriodicFlush == [][C17_Step]_vars

\* a record appended exactly FlushSecs after the loop started: no flush; the
\* next one, a second later, flushes
C17_Witness ==
    /\ delivered = 3
    /\ Appended
    /\ Flushes = 1
    /\ clock = FlushSecs + 1
    /\ last_flush = clock
    /\ status = "running"
    /\ Len(containers) = 1
    /\ Len(containers[1].messages) = 3

(********************** further properties of create_schema ****************)
\* C18: create_schema maps every integral number, over the whole signed and
\* unsigned 64-bit range (unsigned values above i64::MAX included), to type
\* integer, and every non-integral number to type number.
C18_IntegralIsInteger ==
    result # <<>> /\ arg[1] = "num" =>
        /\ arg[2] \in {"PosInt", "NegInt"} => result[1] = [type |-> "integer"]
        /\ arg[2] = "Float" => result[1] = [type |-> "number"]

(******************** further properties of Service::run, 2 ****************)
\* C19: distinct recording sessions never share an output file: the path of a
\* newly opened container differs from the path of every container opened
\* earlier in the run, and no earlier file is truncated by a later open.
C19_DistinctPaths ==
    \A i, j \in 1..Len(containers) :
        /\ i # j => containers[i].path # containers[j].path
        /\ ~containers[i].overwritten

\* a control-topic sample went through an iteration
C20_Step ==
    (delivered' = delivered + 1 /\ base_mode_regex_is_match(last'.topic)) =>
        LET t == last'.topic
            through == last'.fail \in {"", "flush"}
        IN  /\ (last'.control = "set" /\ mcap_writer = 0 /\ last'.fail # "open") =>
                 LET c == containers'[Len(containers')]
                 IN  /\ Len(containers') = Len(containers) + 1
                     /\ ~last'.hit
                     /\ last'.resolves = "ok" /\ through =>
                            /\ c.messages = <<[channel_id |-> 0, sequence |-> 0]>>
                            /\ Len(c.channels) = 1
                            /\ c.channels[1].topic = t
                            /\ Len(last'.calls) >= 4
                            /\ SubSeq(last'.calls, 1, 4)
                                   = <<"open", "add_schema", "add_channel", "write">>
                     /\ last'.resolves # "ok" =>
                            /\ c.channels = <<>>
                            /\ c.messages = <<>>
            /\ (last'.control = "set" /\ mcap_writer # 0) =>
                 /\ last'.ctl_calls = <<>>
                 /\ (last'.hit \/ last'.resolves = "ok") /\ through =>
                        containers'[mcap_writer].messages =
                            Append(containers[mcap_writer].messages,
                                   [channel_id |-> mcap_channel'[t].channel_id,
                                    sequence |-> mcap_channel'[t].sequence - 1])
            /\ last'.control = "clear" =>
                 /\ Count("write", last'.calls) = 0
                 /\ Count("add_schema", last'.calls) = 0
                 /\ Count("add_channel", last'.calls) = 0
                 /\ mcap_writer' = 0
                 /\ Len(containers') = Len(containers)
                 /\ \A i \in 1..Len(containers) :
                        /\ containers'[i].messages = containers[i].messages
                        /\ containers'[i].channels = containers[i].channels
                        /\ containers'[i].schemas = containers[i].schemas

\* C20: control-topic messages are recorded like any other.  The arming message
\* is the first message resolved against the container it opened, in the same
\* iteration: when it resolves it is registered on its own topic and appended
\* with sequence 0, and when it does not the new container stays empty.  A
\* control message with the bit set while Armed is appended to the control
\* topic's channel (registering it first when needed and possible).  A control
\* message with the bit clear is never recorded, in any container.
C20_ControlMessagesRecorded == [][C20_Step]_vars

\* the arming message and a second bit-set control message, both recorded
C20_Witness ==
    /\ delivered = 2
    /\ last.control = "set"
    /\ last.armed
    /\ last.hit
    /\ mcap_writer = 1
    /\ containers[1].messages = <<[channel_id |-> 0, sequence |-> 0],
                                  [channel_id |-> 0, sequence |-> 1]>>
    /\ containers[1].channels[1].topic = ControlTopic
====
